---- MODULE Spec2Model ----
(***************************************************************************)
(* Relative import path rewriting scripts:                                 *)
(*   fix-imports.py, fix-imports-smart.py, fix-overcorrection.py and       *)
(*   refactor-complete.py.                                                 *)
(*                                                                         *)
(* Text is a sequence of one-character strings, as decoded by              *)
(* open(..., 'r', encoding='utf-8').  The regular expressions of the       *)
(* scripts are modelled by matchers over these sequences that follow the   *)
(* leftmost, greedy, non-overlapping semantics of Python's re module.      *)
(***************************************************************************)
EXTENDS Integers, Sequences, FiniteSets, TLC

VARIABLES
    \* ---- a single path handed to the depth adjusters
    ipath,          \* the path before any adjustment
    cpath,          \* the path now
    pform,          \* the specifier syntax the path sits in: [kw, q]
    plog,           \* the adjustments applied so far
    \* ---- one file handed to the in-place rewriters
    items,          \* the specifiers the file was made of
    orig,           \* the content of the file before any pass
    disk,           \* the content of the file on disk
    prev,           \* the content on disk before the last pass
    ret,            \* the return value of the last pass
    wrote,          \* whether the last pass opened the file for writing
    log,            \* the passes run so far
    \* ---- a source tree
    fs,             \* file path -> content
    fs0,            \* the tree at the start of the run
    script,         \* the script that is running
    todo,           \* files the traversal has still to yield
    handed,         \* files handed to the rewriter
    fixed_count,    \* main(): fixed_count
    \* ---- the mover
    files_to_move,  \* main(): files_to_move
    idx,            \* main(): number of loop iterations done
    success_count,  \* main(): success_count
    error_count,    \* main(): error_count
    git_failed,     \* files whose processing met a failing git command
    pc              \* "run", "done" (summary printed) or "crashed"

vars == <<ipath, cpath, pform, plog, items, orig, disk, prev, ret, wrote, log,
          fs, fs0, script, todo, handed, fixed_count,
          files_to_move, idx, success_count, error_count, git_failed, pc>>

pathVars == <<ipath, cpath, pform, plog>>
fileVars == <<items, orig, disk, prev, ret, wrote, log>>
treeVars == <<fs, fs0, script, todo, handed, fixed_count>>
moveVars == <<files_to_move, idx, success_count, error_count, git_failed, pc>>

(***************************************************************************)
(* Bounds                                                                  *)
(***************************************************************************)
MaxPathLen == 5     \* characters of a path handed to the adjusters
MaxPathOps == 2     \* adjustments applied to one path
MaxItems == 2       \* specifiers in one file
MaxPasses == 3      \* rewrite passes over one file
MaxTreeFiles == 3   \* files in a source tree

(***************************************************************************)
(* Characters and string primitives                                        *)
(***************************************************************************)
SQ == "'"
DQ == "\""
NL == "\n"
SP == " "

\* the characters \s matches in a str pattern (those the model uses)
IsSpace(c) == c \in {" ", "\t", "\n", "\r", "\f"}

\* the character class ['"]
IsQuote(c) == c \in {SQ, DQ}

DotSlash == <<".", "/">>
UpSlash == <<".", ".", "/">>
FromLit == <<"f", "r", "o", "m">>
ImportLit == <<"i", "m", "p", "o", "r", "t", "(">>

\* s[i..] begins with lit  (str.startswith, and a literal in a pattern)
StartsAt(s, i, lit) ==
    /\ i >= 1
    /\ i + Len(lit) - 1 <= Len(s)
    /\ s[i] = lit[1]
    /\ SubSeq(s, i, i + Len(lit) - 1) = lit

StartsWith(s, lit) == StartsAt(s, 1, lit)

\* s[i..]  (the slice s[i-1:] of Python)
Drop(s, n) == SubSeq(s, n + 1, Len(s))

RECURSIVE Repeat(_, _)
Repeat(lit, n) == IF n <= 0 THEN <<>> ELSE lit \o Repeat(lit, n - 1)

RECURSIVE Concat(_)
Concat(ss) == IF ss = <<>> THEN <<>> ELSE Head(ss) \o Concat(Tail(ss))

(***************************************************************************)
(* Depth adjusters                                                         *)
(***************************************************************************)
\* str.split("/")
RECURSIVE SplitSlash(_, _)
SplitSlash(s, cur) ==
    IF s = <<>> THEN <<cur>>
    ELSE IF Head(s) = "/" THEN <<cur>> \o SplitSlash(Tail(s), <<>>)
    ELSE SplitSlash(Tail(s), Append(cur, Head(s)))

RECURSIVE LeadingDotDot(_)
LeadingDotDot(parts) ==
    IF parts # <<>> /\ Head(parts) = <<".", ".">>
    THEN 1 + LeadingDotDot(Tail(parts)) ELSE 0

\* fix-imports-smart.py: count_levels_up
count_levels_up(path_str) == LeadingDotDot(SplitSlash(path_str, <<>>))

\* a plausible slip: "../" is put in front of "./" instead of replacing it
add_one_level_keeps_dot(import_path) ==
    IF StartsWith(import_path, DotSlash) \/ StartsWith(import_path, UpSlash)
    THEN UpSlash \o import_path
    ELSE import_path

\* fix-imports-smart.py: add_one_level
add_one_level(import_path) ==
    IF StartsWith(import_path, DotSlash) THEN UpSlash \o Drop(import_path, 2)
    ELSE IF StartsWith(import_path, UpSlash) THEN UpSlash \o import_path
    ELSE import_path

\* refactor-complete.py: add_one_level_to_path
add_one_level_to_path(import_path) ==
    IF StartsWith(import_path, DotSlash) THEN UpSlash \o Drop(import_path, 2)
    ELSE IF StartsWith(import_path, UpSlash) THEN UpSlash \o import_path
    ELSE import_path

\* refactor-complete.py: fix_import_statement, on the groups of a match
fix_import_statement(before, path, after) ==
    IF StartsWith(path, DotSlash) \/ StartsWith(path, UpSlash)
    THEN before \o add_one_level_to_path(path) \o after
    ELSE before \o path \o after

(***************************************************************************)
(* Pattern matching.  A match is [end, pstart, pend]: the matched text is  *)
(* s[i..end-1] and the path group s[pstart..pend-1]; end = 0 is no match.  *)
(***************************************************************************)
RECURSIVE SkipSpace(_, _)
SkipSpace(s, i) ==
    IF i <= Len(s) /\ IsSpace(s[i]) THEN SkipSpace(s, i + 1) ELSE i

\* \s+['"] from i + 4, the whitespace ending before j
FromQuoteAt(s, i, j) ==
    IF j > i + 4 /\ j <= Len(s) /\ IsQuote(s[j]) THEN j + 1 ELSE 0

\* from\s+['"] at i: the index after the quote, 0 when there is no match
FromPrefixEnd(s, i) ==
    IF StartsAt(s, i, FromLit) THEN FromQuoteAt(s, i, SkipSpace(s, i + 4)) ELSE 0

\* import\(['"] at i: the index after the quote, 0 when there is no match
ImportPrefixEnd(s, i) ==
    IF StartsAt(s, i, ImportLit) /\ i + 7 <= Len(s) /\ IsQuote(s[i + 7])
    THEN i + 8 ELSE 0

\* the prefix group of the pattern family kind ("from" or "import")
PrefixEnd(kind, s, i) ==
    IF kind = "from" THEN FromPrefixEnd(s, i) ELSE ImportPrefixEnd(s, i)

\* [^'"]* from j: the index of the first quote at or after j, Len(s)+1 if none
RECURSIVE QuoteAt(_, _)
QuoteAt(s, j) ==
    IF j > Len(s) THEN j
    ELSE IF IsQuote(s[j]) THEN j ELSE QuoteAt(s, j + 1)

\* (\.\./)+ from j: the number of repetitions matched
RECURSIVE UpRun(_, _)
UpRun(s, j) == IF StartsAt(s, j, UpSlash) THEN 1 + UpRun(s, j + 3) ELSE 0

NoMatch == [end |-> 0, pstart |-> 0, pend |-> 0]

\* ([./][^'"]+)(['"]) and ([./][^'"]+)(['"]\)) after a prefix that ends
\* before e, the run of [^'"] ending before r
SpecifierTail(kind, s, e, r) ==
    IF /\ e # 0
       /\ e <= Len(s)
       /\ s[e] \in {".", "/"}
       /\ r > e + 1
       /\ r <= Len(s)
       /\ (kind = "import" => (r + 1 <= Len(s) /\ s[r + 1] = ")"))
    THEN [end |-> IF kind = "import" THEN r + 2 ELSE r + 1, pstart |-> e, pend |-> r]
    ELSE NoMatch

SpecifierAfter(kind, s, e) == SpecifierTail(kind, s, e, QuoteAt(s, e + 1))

\* (from\s+['"])([./][^'"]+)(['"])  and  (import\(['"])([./][^'"]+)(['"]\))
\* at i  (fix-imports-smart.py, refactor-complete.py)
SpecifierMatch(kind, s, i) == SpecifierAfter(kind, s, PrefixEnd(kind, s, i))

UpAfter(s, e) ==
    IF e # 0 /\ StartsAt(s, e, UpSlash)
    THEN [end |-> e + 3, pstart |-> e, pend |-> e + 3]
    ELSE NoMatch

\* (from\s+['"])(\.\./)  and  (import\(['"])(\.\./)  at i  (fix-imports.py)
UpMatch(kind, s, i) == UpAfter(s, PrefixEnd(kind, s, i))

DotTail(s, e, r) ==
    IF e # 0 /\ StartsAt(s, e, DotSlash) /\ r > e + 2 /\ r <= Len(s)
    THEN [end |-> r + 1, pstart |-> e, pend |-> r]
    ELSE NoMatch

DotAfter(s, e) == DotTail(s, e, QuoteAt(s, e + 2))

\* (from\s+['"])(\./)([^'"]+['"])  and the import( form  (fix-imports.py)
DotMatch(kind, s, i) == DotAfter(s, PrefixEnd(kind, s, i))

UpRunTail(e, n) ==
    IF e # 0 /\ n >= 1
    THEN [end |-> e + 3 * n, pstart |-> e, pend |-> e + 3 * n]
    ELSE NoMatch

UpRunAfter(s, e) == UpRunTail(e, UpRun(s, e))

\* (from\s+['"])(\.\./)+  and the import( form  (fix-overcorrection.py)
UpRunMatch(kind, s, i) == UpRunAfter(s, PrefixEnd(kind, s, i))

(***************************************************************************)
(* re.sub, re.search, str.replace, str.count                               *)
(***************************************************************************)
\* the match of pattern pat ("spec", "up", "dot", "uprun") of family kind at i
MatchAt(pat, kind, s, i) ==
    CASE pat = "spec" -> SpecifierMatch(kind, s, i)
      [] pat = "up" -> UpMatch(kind, s, i)
      [] pat = "dot" -> DotMatch(kind, s, i)
      [] pat = "uprun" -> UpRunMatch(kind, s, i)

\* str.count(lit): non-overlapping occurrences, left to right
RECURSIVE Count(_, _, _)
Count(s, lit, i) ==
    IF i + Len(lit) - 1 > Len(s) THEN 0
    ELSE IF StartsAt(s, i, lit) THEN 1 + Count(s, lit, i + Len(lit))
    ELSE Count(s, lit, i + 1)

\* fix-imports.py: the replacement r"\1../\2"
UpRepl(s, i, m) == SubSeq(s, i, m.pstart - 1) \o UpSlash \o SubSeq(s, m.pstart, m.pend - 1)

\* fix-imports.py: the replacement r"\1../\3"
DotRepl(s, i, m) == SubSeq(s, i, m.pstart - 1) \o UpSlash \o SubSeq(s, m.pstart + 2, m.end - 1)

\* a plausible slip: every leading "../" is removed, not one
OverReplAll(s, i, m) == SubSeq(s, i, m.pstart - 1)

\* fix-overcorrection.py: lambda m: m.group(1) + "../" * (m.group(0).count("../") - 1)
OverRepl(s, i, m) ==
    SubSeq(s, i, m.pstart - 1) \o Repeat(UpSlash, Count(SubSeq(s, i, m.end - 1), UpSlash, 1) - 1)

\* refactor-complete.py: fix_import_statement applied to the match m
SpecRepl(s, i, m) ==
    fix_import_statement(SubSeq(s, i, m.pstart - 1),
                         SubSeq(s, m.pstart, m.pend - 1),
                         SubSeq(s, m.pend, m.end - 1))

ReplAt(pat, s, i, m) ==
    CASE pat = "spec" -> SpecRepl(s, i, m)
      [] pat = "up" -> UpRepl(s, i, m)
      [] pat = "dot" -> DotRepl(s, i, m)
      [] pat = "uprun" -> OverRepl(s, i, m)

\* the start of the leftmost match of pat at or after i, Len(s)+1 when none
RECURSIVE NextMatch(_, _, _, _)
NextMatch(pat, kind, s, i) ==
    IF i > Len(s) THEN i
    ELSE IF MatchAt(pat, kind, s, i).end # 0 THEN i
    ELSE NextMatch(pat, kind, s, i + 1)

\* re.sub(pattern, repl, s), scanning from i: leftmost matches, not overlapping
RECURSIVE ReSubFrom(_, _, _, _)
\* the match m found at j: the text before it is copied, the match replaced
ReSubStep(pat, kind, s, i, j, m) ==
    SubSeq(s, i, j - 1) \o ReplAt(pat, s, j, m) \o ReSubFrom(pat, kind, s, m.end)

ReSubAt(pat, kind, s, i, j) ==
    IF j > Len(s) THEN SubSeq(s, i, Len(s))
    ELSE ReSubStep(pat, kind, s, i, j, MatchAt(pat, kind, s, j))

ReSubFrom(pat, kind, s, i) ==
    IF i > Len(s) THEN <<>> ELSE ReSubAt(pat, kind, s, i, NextMatch(pat, kind, s, i))

ReSub(pat, kind, s) == ReSubFrom(pat, kind, s, 1)

\* re.search(pattern, s) for the specifier patterns: the start of the leftmost
\* match, 0 when none
RECURSIVE SearchFrom(_, _, _)
SearchFrom(kind, s, i) ==
    IF i > Len(s) THEN 0
    ELSE IF SpecifierMatch(kind, s, i).end # 0 THEN i
    ELSE SearchFrom(kind, s, i + 1)

\* str.replace(old, new): every occurrence of old, left to right
RECURSIVE NextOccurrence(_, _, _)
NextOccurrence(s, old, i) ==
    IF i > Len(s) THEN i
    ELSE IF StartsAt(s, i, old) THEN i
    ELSE NextOccurrence(s, old, i + 1)

RECURSIVE ReplaceFrom(_, _, _, _)
ReplaceAt(s, old, new, i, j) ==
    IF j > Len(s) THEN SubSeq(s, i, Len(s))
    ELSE SubSeq(s, i, j - 1) \o new \o ReplaceFrom(s, old, new, j + Len(old))

ReplaceFrom(s, old, new, i) ==
    IF i > Len(s) THEN <<>> ELSE ReplaceAt(s, old, new, i, NextOccurrence(s, old, i))

\* f.readlines(): the lines, each with its "\n"
RECURSIVE NextNewline(_, _)
NextNewline(s, i) ==
    IF i > Len(s) THEN i
    ELSE IF s[i] = NL THEN i
    ELSE NextNewline(s, i + 1)

RECURSIVE ReadLinesFrom(_, _)
ReadLinesAt(s, i, j) ==
    IF j > Len(s) THEN <<SubSeq(s, i, Len(s))>>
    ELSE <<SubSeq(s, i, j)>> \o ReadLinesFrom(s, j + 1)

ReadLinesFrom(s, i) ==
    IF i > Len(s) THEN <<>> ELSE ReadLinesAt(s, i, NextNewline(s, i))

ReadLines(s) == ReadLinesFrom(s, 1)

(***************************************************************************)
(* The content transformations of the four scripts                         *)
(***************************************************************************)
\* fix-imports.py: fix_imports_in_file, the four substitutions
fix_imports_content(content) ==
    LET c1 == ReSub("up", "from", content)
        c2 == ReSub("dot", "from", c1)
        c3 == ReSub("up", "import", c2)
    IN  ReSub("dot", "import", c3)

\* fix-overcorrection.py: fix_overcorrection_in_file, the two substitutions
fix_overcorrection_content(content) ==
    ReSub("uprun", "import", ReSub("uprun", "from", content))

\* refactor-complete.py: fix_imports_in_content
fix_imports_in_content(content) ==
    ReSub("spec", "import", ReSub("spec", "from", content))

\* a plausible slip: the suffix group is left out of the rebuilt specifier
SmartReplace_drops_suffix(line, prefix, path, suffix) ==
    ReplaceFrom(line, prefix \o path \o suffix, prefix \o add_one_level(path), 1)

\* fix-imports-smart.py: new_path = add_one_level(path) and
\* line.replace(f"{prefix}{path}{suffix}", f"{prefix}{new_path}{suffix}")
SmartReplace(line, prefix, path, suffix) ==
    ReplaceFrom(line, prefix \o path \o suffix,
                prefix \o add_one_level(path) \o suffix, 1)

\* fix-imports-smart.py: the groups of the match m found at i, and the replace
SmartMatched(line, i, m) ==
    SmartReplace(line, SubSeq(line, i, m.pstart - 1),
                 SubSeq(line, m.pstart, m.pend - 1),
                 SubSeq(line, m.pend, m.end - 1))

SmartFound(kind, line, i) ==
    IF i = 0 THEN line ELSE SmartMatched(line, i, SpecifierMatch(kind, line, i))

\* fix-imports-smart.py: one pattern block of the loop body, on one line:
\* re.search, add_one_level on group 2, line.replace
SmartStep(kind, line) == SmartFound(kind, line, SearchFrom(kind, line, 1))

\* fix-imports-smart.py: changed, for the line, l1 after the first block and
\* l2 after the second
SmartChanged(line, l1, l2) ==
    \/ SearchFrom("from", line, 1) # 0 /\ l1 # line
    \/ SearchFrom("import", l1, 1) # 0 /\ l2 # line

SmartSecond(line, l1, l2) == [line |-> l2, changed |-> SmartChanged(line, l1, l2)]

SmartFirst(line, l1) == SmartSecond(line, l1, SmartStep("import", l1))

\* fix-imports-smart.py: the loop body for one line: [new line, changed]
SmartLine(line) == SmartFirst(line, SmartStep("from", line))

SmartJoin(h, t) ==
    [lines |-> <<h.line>> \o t.lines, changed |-> h.changed \/ t.changed]

RECURSIVE SmartLines(_)
SmartLines(lines) ==
    IF lines = <<>> THEN [lines |-> <<>>, changed |-> FALSE]
    ELSE SmartJoin(SmartLine(Head(lines)), SmartLines(Tail(lines)))

SmartResult(r) == [content |-> Concat(r.lines), changed |-> r.changed]

\* fix-imports-smart.py: fix_imports_in_file: [new_lines joined, changed]
smart_fix(content) == SmartResult(SmartLines(ReadLines(content)))

(***************************************************************************)
(* Specifier syntax                                                        *)
(***************************************************************************)
\* the text before the path of a specifier: from '  or  import('
PrefixText(kw, q) ==
    IF kw = "from" THEN FromLit \o <<SP, q>> ELSE ImportLit \o <<q>>

\* the text after the path of a specifier: '  or  ')
SuffixText(kw, q) == IF kw = "from" THEN <<q>> ELSE <<q, ")">>

SpecifierText(kw, q, path) == PrefixText(kw, q) \o path \o SuffixText(kw, q)

\* a path is in scope when it begins with ./ or ../
InScope(path) == StartsWith(path, DotSlash) \/ StartsWith(path, UpSlash)

(***************************************************************************)
(* The adjusters applied to one path                                       *)
(***************************************************************************)
PathChars == {".", "/", "a"}
PathSet == UNION {[1..n -> PathChars] : n \in 1..MaxPathLen}
Forms == [kw : {"from", "import"}, q : {SQ, DQ}]

IdleFile ==
    /\ items = <<>> /\ orig = <<>> /\ disk = <<>> /\ prev = <<>>
    /\ ret = FALSE /\ wrote = FALSE /\ log = <<>>

IdleTree ==
    /\ fs = <<>> /\ fs0 = <<>> /\ script = "none" /\ todo = {}
    /\ handed = {} /\ fixed_count = 0

IdleMove ==
    /\ files_to_move = <<>> /\ idx = 0 /\ success_count = 0
    /\ error_count = 0 /\ git_failed = {} /\ pc = "none"

IdlePath ==
    /\ ipath = <<>> /\ cpath = <<>> /\ pform = [kw |-> "from", q |-> SQ]
    /\ plog = <<>>

InitPath ==
    /\ ipath \in PathSet
    /\ cpath = ipath
    /\ pform \in Forms
    /\ plog = <<>>
    /\ IdleFile /\ IdleTree /\ IdleMove

\* the text between a prefix and a suffix
Between(text, pre, suf) == SubSeq(text, Len(pre) + 1, Len(text) - Len(suf))

\* fix-imports-smart.py: add_one_level on the path of a match
AddOneLevel ==
    /\ Len(plog) < MaxPathOps
    /\ cpath' = add_one_level(cpath)
    /\ plog' = Append(plog, "add_one_level")
    /\ UNCHANGED <<ipath, pform, fileVars, treeVars, moveVars>>

\* refactor-complete.py: fix_import_statement on the groups of a match
AddOneLevelToPath ==
    /\ Len(plog) < MaxPathOps
    /\ cpath' = Between(fix_import_statement(PrefixText(pform.kw, pform.q), cpath,
                                             SuffixText(pform.kw, pform.q)),
                        PrefixText(pform.kw, pform.q), SuffixText(pform.kw, pform.q))
    /\ plog' = Append(plog, "add_one_level_to_path")
    /\ UNCHANGED <<ipath, pform, fileVars, treeVars, moveVars>>

\* fix-overcorrection.py: the substitutions of fix_overcorrection_in_file on
\* the specifier that holds the path
RemoveOneLevel ==
    /\ Len(plog) < MaxPathOps
    /\ cpath' = Between(fix_overcorrection_content(SpecifierText(pform.kw, pform.q, cpath)),
                        PrefixText(pform.kw, pform.q), SuffixText(pform.kw, pform.q))
    /\ plog' = Append(plog, "remove_one_level")
    /\ UNCHANGED <<ipath, pform, fileVars, treeVars, moveVars>>

NextPath == AddOneLevel \/ AddOneLevelToPath \/ RemoveOneLevel

SpecPath == InitPath /\ [][NextPath]_vars

IsAdd(op) == op \in {"add_one_level", "add_one_level_to_path"}

\* C1 (as stated): adding one level and then removing one level gives back
\* every in-scope path.
C1_RoundTripAllInScope ==
    (Len(plog) = 2 /\ IsAdd(plog[1]) /\ plog[2] = "remove_one_level" /\ InScope(ipath))
        => cpath = ipath

\* C1 (amended): adding one level and then removing one level gives back every
\* path that begins with ../ ; of a path ./r it leaves r, without the ./ .
C1_RoundTripParentPaths ==
    (Len(plog) = 2 /\ IsAdd(plog[1]) /\ plog[2] = "remove_one_level")
        => /\ StartsWith(ipath, UpSlash) => cpath = ipath
           /\ StartsWith(ipath, DotSlash) => cpath = Drop(ipath, 2)

C1_Witness ==
    /\ plog = <<"add_one_level", "remove_one_level">>
    /\ StartsWith(ipath, UpSlash)
    /\ cpath = ipath

\* C4 (as stated): the +1 adjustment of an in-scope path has exactly one more
\* leading ../ segment, as counted by count_levels_up, and the same remainder.
C4_ExactlyOneMoreLevel ==
    (Len(plog) = 1 /\ IsAdd(plog[1]) /\ InScope(ipath))
        => /\ count_levels_up(cpath) = count_levels_up(ipath) + 1
           /\ cpath = UpSlash \o (IF StartsWith(ipath, DotSlash) THEN Drop(ipath, 2) ELSE ipath)

\* C4 (amended): the +1 adjustment turns ./r into ../r and ../r into ../../r
\* and leaves a path with neither prefix unchanged; count_levels_up of the
\* result is one more than that of ../r itself, and one more than that of the
\* remainder r of ./r (which is one more than that of ./r only when r does not
\* begin with a .. segment).
C4_OneMoreLevelThanRemainder ==
    (Len(plog) = 1 /\ IsAdd(plog[1]))
        => /\ StartsWith(ipath, UpSlash) =>
                /\ cpath = UpSlash \o ipath
                /\ count_levels_up(cpath) = count_levels_up(ipath) + 1
           /\ StartsWith(ipath, DotSlash) =>
                /\ cpath = UpSlash \o Drop(ipath, 2)
                /\ count_levels_up(cpath) = count_levels_up(Drop(ipath, 2)) + 1
                /\ (count_levels_up(Drop(ipath, 2)) = 0
                        => count_levels_up(cpath) = count_levels_up(ipath) + 1)
           /\ ~InScope(ipath) => cpath = ipath

C4_Witness ==
    /\ plog = <<"add_one_level">>
    /\ StartsWith(ipath, DotSlash)
    /\ Len(ipath) > 2
    /\ count_levels_up(cpath) = 1

(***************************************************************************)
(* One file handed to the in-place rewriters                               *)
(***************************************************************************)
Item(kw, ws, q, path, close, sep) ==
    [kw |-> kw, ws |-> ws, q |-> q, path |-> path, close |-> close, sep |-> sep]

\* the specifiers a file is made of; ws is the whitespace between from and
\* the quote; close is "closed" (the specifier is complete), "open" (the
\* closing quote is missing) or "noparen" (the closing parenthesis of import(
\* is missing); sep is the character that follows
ItemSet ==
    { Item("from", <<SP>>, SQ, <<".", "/", "a">>, "closed", SP),
      Item("from", <<SP>>, DQ, <<".", ".", "/", "a">>, "closed", SP),
      Item("from", <<SP>>, SQ, <<".", "/">>, "closed", SP),
      Item("from", <<SP>>, SQ, <<"r">>, "closed", NL),
      Item("from", <<SP>>, SQ, <<"/", "a">>, "closed", SP),
      Item("from", <<SP, NL>>, SQ, <<".", "/", ".", ".", "/", "a">>, "closed", NL),
      Item("from", <<SP>>, SQ, <<".", "/", "b">>, "open", SP),
      Item("import", <<>>, SQ, <<".", "/", "a">>, "closed", SP),
      Item("import", <<>>, DQ, <<".", ".", "/", "b">>, "closed", NL),
      Item("import", <<>>, SQ, <<".", "/", "a">>, "noparen", SP) }

ItemText(it) ==
    (IF it.kw = "from" THEN FromLit \o it.ws \o <<it.q>> ELSE ImportLit \o <<it.q>>)
        \o it.path
        \o (CASE it.close = "closed" -> SuffixText(it.kw, it.q)
              [] it.close = "noparen" -> <<it.q>>
              [] it.close = "open" -> <<>>)
        \o <<it.sep>>

RECURSIVE Render(_)
Render(its) == IF its = <<>> THEN <<>> ELSE ItemText(Head(its)) \o Render(Tail(its))

ItemSeqs == UNION {[1..n -> ItemSet] : n \in 1..MaxItems}

InitFile ==
    /\ items \in ItemSeqs
    /\ orig = Render(items)
    /\ disk = orig
    /\ prev = orig
    /\ ret = FALSE
    /\ wrote = FALSE
    /\ log = <<>>
    /\ IdlePath /\ IdleTree /\ IdleMove

\* if content != original_content: write, return True; else return False
\* (fix-imports.py, fix-overcorrection.py): the content left on disk, whether
\* the file was opened for writing, the return value
WriteIfDifferent(content, new) ==
    IF new # content
    THEN [disk |-> new, wrote |-> TRUE, ret |-> TRUE]
    ELSE [disk |-> content, wrote |-> FALSE, ret |-> FALSE]

\* if changed: write new_lines, return True; else return False
\* (fix-imports-smart.py)
WriteIfChanged(content, r) ==
    IF r.changed
    THEN [disk |-> r.content, wrote |-> TRUE, ret |-> TRUE]
    ELSE [disk |-> content, wrote |-> FALSE, ret |-> FALSE]

\* a plausible slip: the file is written and True returned whatever the result
fix_imports_in_file_always(content) ==
    [disk |-> fix_imports_content(content), wrote |-> TRUE, ret |-> TRUE]

\* fix-imports.py: fix_imports_in_file
fix_imports_in_file(content) == WriteIfDifferent(content, fix_imports_content(content))

\* fix-imports-smart.py: fix_imports_in_file
smart_fix_imports_in_file(content) == WriteIfChanged(content, smart_fix(content))

\* fix-overcorrection.py: fix_overcorrection_in_file
fix_overcorrection_in_file(content) ==
    WriteIfDifferent(content, fix_overcorrection_content(content))

\* the file after a rewriter has returned r
Returned(r) ==
    /\ prev' = disk
    /\ disk' = r.disk
    /\ wrote' = r.wrote
    /\ ret' = r.ret

\* python3 fix-imports.py on the file
FixImports ==
    /\ Len(log) < MaxPasses
    /\ Returned(fix_imports_in_file(disk))
    /\ log' = Append(log, "fix")
    /\ UNCHANGED <<items, orig, pathVars, treeVars, moveVars>>

\* python3 fix-imports-smart.py on the file
FixImportsSmart ==
    /\ Len(log) < MaxPasses
    /\ Returned(smart_fix_imports_in_file(disk))
    /\ log' = Append(log, "smart")
    /\ UNCHANGED <<items, orig, pathVars, treeVars, moveVars>>

\* python3 fix-overcorrection.py on the file
FixOvercorrection ==
    /\ Len(log) < MaxPasses
    /\ Returned(fix_overcorrection_in_file(disk))
    /\ log' = Append(log, "over")
    /\ UNCHANGED <<items, orig, pathVars, treeVars, moveVars>>

NextFile == FixImports \/ FixImportsSmart \/ FixOvercorrection

SpecFile == InitFile /\ [][NextFile]_vars

(***************************************************************************)
(* Properties of the rewrite passes                                        *)
(***************************************************************************)
\* the start of the run of whitespace that ends at j; j + 1 when s[j] is none
RECURSIVE SpaceRunStart(_, _)
SpaceRunStart(s, j) ==
    IF j >= 1 /\ IsSpace(s[j]) THEN SpaceRunStart(s, j - 1) ELSE j + 1

\* from, then the whitespace s[w..e-2], then the quote s[e-1]
FromBefore(s, e, w) == w <= e - 2 /\ StartsAt(s, w - 4, FromLit)

\* e is the first character of the path of an in-scope specifier of s: it
\* follows from\s+['"] or import(['"] and begins with ./ or ../
IsPathStart(s, e) ==
    /\ e > 1
    /\ IsQuote(s[e - 1])
    /\ (StartsAt(s, e, DotSlash) \/ StartsAt(s, e, UpSlash))
    /\ (StartsAt(s, e - 8, ImportLit) \/ FromBefore(s, e, SpaceRunStart(s, e - 2)))

HasInScopeSpecifier(s) == \E e \in 1..Len(s) : IsPathStart(s, e)

\* t is s with nothing changed but the path portions of the in-scope
\* specifiers of s.  The path portion runs from the character after the
\* opening quote up to the next quote character.
RECURSIVE SameOutsidePaths(_, _, _, _)
SameOutsidePaths(s, i, t, j) ==
    IF i > Len(s) THEN j > Len(t)
    ELSE IF IsPathStart(s, i)
         THEN SameOutsidePaths(s, QuoteAt(s, i), t, QuoteAt(t, j))
         ELSE /\ j <= Len(t)
              /\ t[j] = s[i]
              /\ SameOutsidePaths(s, i + 1, t, j + 1)

\* the file with every complete in-scope specifier raised by one level
RaisedItem(it) ==
    IF it.close = "closed" /\ InScope(it.path)
    THEN [it EXCEPT !.path = UpSlash \o (IF StartsWith(it.path, DotSlash)
                                         THEN Drop(it.path, 2) ELSE it.path)]
    ELSE it

Raised(its) == [k \in 1..Len(its) |-> RaisedItem(its[k])]

\* two or more complete in-scope specifiers on the first line, nothing else
SeveralOnOneLine(its) ==
    /\ Len(its) >= 2
    /\ \A k \in 1..Len(its) : its[k].close = "closed" /\ InScope(its[k].path)
    /\ \A k \in 1..Len(its) : NL \notin {its[k].ws[n] : n \in 1..Len(its[k].ws)}
    /\ \A k \in 1..(Len(its) - 1) : its[k].sep = SP

\* C2: when one line holds several in-scope specifiers, a +1 pass adjusts
\* every one of them exactly once; none is skipped because an earlier one on
\* the line matched first.
C2_EverySpecifierOnLineAdjusted ==
    SeveralOnOneLine(items) =>
        /\ fix_imports_in_content(orig) = Render(Raised(items))
        /\ log = <<"smart">> => disk = Render(Raised(items))

\* C5: fix-imports.py twice and then fix-overcorrection.py once leave the
\* content that one pass of fix-imports.py makes of the original content.
C5_RepairAfterDoubleRewrite ==
    log = <<"fix", "fix", "over">> => disk = fix_imports_content(orig)

C7_WrittenIffChanged ==
    log # <<>> =>
        /\ wrote <=> ret
        /\ ret <=> (disk # prev)
        /\ ~HasInScopeSpecifier(prev) => (~ret /\ ~wrote /\ disk = prev)

C7_Witness ==
    /\ Len(log) = 1
    /\ log[1] \in {"fix", "smart"}
    /\ ~HasInScopeSpecifier(orig)
    /\ ~ret /\ ~wrote

\* C9: the four substitutions of fix-imports.py give the output of
\* fix_imports_in_content of refactor-complete.py.
C9_SameAsRefactorComplete ==
    log = <<"fix">> => disk = fix_imports_in_content(orig)

(***************************************************************************)
(* File names and paths.  A path is the sequence of its parts, a part is a *)
(* sequence of characters.                                                 *)
(***************************************************************************)
Src == <<"s", "r", "c">>
DirA == <<"a">>
DirB == <<"b">>
DirC == <<"c">>
IndexTs == <<"i", "n", "d", "e", "x", ".", "t", "s">>
IndexTsx == <<"i", "n", "d", "e", "x", ".", "t", "s", "x">>
IndexTestTs == <<"i", "n", "d", "e", "x", ".", "t", "e", "s", "t", ".", "t", "s">>
IndexTxt == <<"i", "n", "d", "e", "x", ".", "t", "x", "t">>
CTs == <<"c", ".", "t", "s">>
ATs == <<"a", ".", "t", "s">>
ATsx == <<"a", ".", "t", "s", "x">>
ACss == <<"a", ".", "c", "s", "s">>
BTsx == <<"b", ".", "t", "s", "x">>
ATestTs == <<"a", ".", "t", "e", "s", "t", ".", "t", "s">>

Last(seq) == seq[Len(seq)]
Front(seq) == SubSeq(seq, 1, Len(seq) - 1)

EndsWith(s, lit) == Len(s) >= Len(lit) /\ SubSeq(s, Len(s) - Len(lit) + 1, Len(s)) = lit

\* str.rfind("."): the index of the last dot, 0 when there is none
RECURSIVE LastDot(_, _)
LastDot(name, i) ==
    IF i = 0 THEN 0 ELSE IF name[i] = "." THEN i ELSE LastDot(name, i - 1)

SuffixFrom(name, i) ==
    IF 1 < i /\ i < Len(name) THEN SubSeq(name, i, Len(name)) ELSE <<>>

\* pathlib: PurePath.suffix
Suffix(name) == SuffixFrom(name, LastDot(name, Len(name)))

StemTo(name, i) ==
    IF 1 < i /\ i < Len(name) THEN SubSeq(name, 1, i - 1) ELSE name

\* pathlib: PurePath.stem
Stem(name) == StemTo(name, LastDot(name, Len(name)))

\* the pattern index.t* of rglob
GlobIndexT(name) == StartsWith(name, <<"i", "n", "d", "e", "x", ".", "t">>)

FileContents ==
    { Render(<<Item("from", <<SP>>, SQ, <<".", "/", "a">>, "closed", NL)>>),
      Render(<<Item("from", <<SP>>, DQ, <<"r">>, "closed", NL)>>) }

Trees(candidates) ==
    UNION { [T -> FileContents] :
              T \in {U \in SUBSET candidates : Cardinality(U) \in 1..MaxTreeFiles} }

(***************************************************************************)
(* The tree walk of main() in the three in-place scripts                   *)
(***************************************************************************)
WalkCandidates ==
    { <<Src, IndexTs>>,
      <<Src, DirA, IndexTs>>,
      <<Src, DirA, DirB, IndexTs>>,
      <<Src, DirA, DirB, IndexTsx>>,
      <<Src, Src, DirB, IndexTs>>,
      <<Src, DirA, DirB, IndexTestTs>>,
      <<Src, DirA, DirB, IndexTxt>>,
      <<Src, DirA, DirB, CTs>>,
      <<Src, DirA, DirB, DirC, IndexTs>> }

\* src_path.rglob("index.t*"): the files it yields, in an order of its own
RGlob(tree) == {f \in DOMAIN tree : GlobIndexT(Last(f))}

InitWalk ==
    /\ fs \in Trees(WalkCandidates)
    /\ fs0 = fs
    /\ script \in {"fix-imports", "fix-imports-smart", "fix-overcorrection"}
    /\ todo = RGlob(fs)
    /\ handed = {}
    /\ fixed_count = 0
    /\ IdlePath /\ IdleFile /\ IdleMove

\* main(): the three tests of the loop body that let a file through
Selected(index_file) ==
    /\ Suffix(Last(index_file)) \in {<<".", "t", "s">>, <<".", "t", "s", "x">>}
    /\ ~(Len(index_file) < 3)
    /\ ~(index_file[Len(index_file) - 2] = Src)

\* one iteration of the loop of main(), with the rewriter of the script
Visit(f, r) ==
    /\ todo' = todo \ {f}
    /\ IF Selected(f)
       THEN /\ handed' = handed \cup {f}
            /\ fs' = [fs EXCEPT ![f] = r.disk]
            /\ fixed_count' = fixed_count + (IF r.ret THEN 1 ELSE 0)
       ELSE UNCHANGED <<handed, fs, fixed_count>>
    /\ UNCHANGED <<fs0, script, pathVars, fileVars, moveVars>>

\* fix-imports.py: main(), one iteration
WalkFixImports ==
    /\ script = "fix-imports"
    /\ \E f \in todo : Visit(f, fix_imports_in_file(fs[f]))

\* fix-imports-smart.py: main(), one iteration
WalkFixImportsSmart ==
    /\ script = "fix-imports-smart"
    /\ \E f \in todo : Visit(f, smart_fix_imports_in_file(fs[f]))

\* fix-overcorrection.py: main(), one iteration
WalkFixOvercorrection ==
    /\ script = "fix-overcorrection"
    /\ \E f \in todo : Visit(f, fix_overcorrection_in_file(fs[f]))

NextWalk == WalkFixImports \/ WalkFixImportsSmart \/ WalkFixOvercorrection

SpecWalk == InitWalk /\ [][NextWalk]_vars

\* C8: the walk hands a file to the rewriter if and only if the file is named
\* index.ts or index.tsx and its directory lies at least two levels below the
\* root src, whatever the names of the directories on its path.
C8_HandedIffNestedIndex ==
    todo = {} =>
        \A f \in DOMAIN fs :
            f \in handed <=> (Last(f) \in {IndexTs, IndexTsx} /\ Len(f) >= 4)

(***************************************************************************)
(* refactor-complete.py                                                    *)
(***************************************************************************)
MoveCandidates ==
    { <<Src, ATs>>,
      <<Src, ATsx>>,
      <<Src, ACss>>,
      <<Src, DirA, IndexTs>>,
      <<Src, BTsx>>,
      <<Src, ATestTs>>,
      <<Src, IndexTs>>,
      <<Src, DirA, CTs>> }

\* the code points of the characters of the file names
Code(c) ==
    CASE c = "." -> 46 [] c = "/" -> 47
      [] c = "a" -> 97 [] c = "b" -> 98 [] c = "c" -> 99 [] c = "d" -> 100
      [] c = "e" -> 101 [] c = "i" -> 105 [] c = "n" -> 110 [] c = "r" -> 114
      [] c = "s" -> 115 [] c = "t" -> 116 [] c = "x" -> 120

\* str(path): the parts joined by "/"
RECURSIVE PathStr(_)
PathStr(f) ==
    IF Len(f) = 1 THEN f[1] ELSE f[1] \o <<"/">> \o PathStr(Tail(f))

\* s < t for str
RECURSIVE StrLess(_, _)
StrLess(s, t) ==
    IF t = <<>> THEN FALSE
    ELSE IF s = <<>> THEN TRUE
    ELSE IF Head(s) = Head(t) THEN StrLess(Tail(s), Tail(t))
    ELSE Code(Head(s)) < Code(Head(t))

\* list.sort() of a set of paths
RECURSIVE SortPaths(_)
SortFrom(S, m) == <<m>> \o SortPaths(S \ {m})

SortPaths(S) ==
    IF S = {} THEN <<>>
    ELSE SortFrom(S, CHOOSE x \in S : \A y \in S \ {x} : StrLess(PathStr(x), PathStr(y)))

\* main(): the find command
Find(tree) ==
    { f \in DOMAIN tree :
        /\ f[1] = Src
        /\ (EndsWith(Last(f), <<".", "t", "s">>) \/ EndsWith(Last(f), <<".", "t", "s", "x">>))
        /\ Last(f) # IndexTs
        /\ Last(f) # IndexTsx
        /\ ~EndsWith(Last(f), <<".", "t", "e", "s", "t", ".", "t", "s">>)
        /\ ~EndsWith(Last(f), <<".", "t", "e", "s", "t", ".", "t", "s", "x">>) }

InitMove ==
    /\ fs \in Trees(MoveCandidates)
    /\ fs0 = fs
    /\ script = "refactor-complete"
    /\ todo = {}
    /\ handed = {}
    /\ fixed_count = 0
    /\ files_to_move = <<>>
    /\ idx = 0
    /\ success_count = 0
    /\ error_count = 0
    /\ git_failed = {}
    /\ pc = "start"
    /\ IdlePath /\ IdleFile

\* main(): find, strip, sort
MoverFind ==
    /\ pc = "start"
    /\ files_to_move' = SortPaths(Find(fs))
    /\ pc' = "run"
    /\ UNCHANGED <<idx, success_count, error_count, git_failed,
                   pathVars, fileVars, treeVars>>

\* the tree with content written to the file f
WriteFile(tree, f, content) ==
    [g \in DOMAIN tree \cup {f} |-> IF g = f THEN content ELSE tree[g]]

\* the tree without the file f
RemoveFile(tree, f) == [g \in DOMAIN tree \ {f} |-> tree[g]]

\* move_file_and_fix_imports: nested_dir / f"index{file_ext}"
TargetFile(src_file) ==
    Front(src_file) \o <<Stem(Last(src_file)), <<"i", "n", "d", "e", "x">> \o Suffix(Last(src_file))>>

\* move_file_and_fix_imports: parent_dir / f"{file_name}.css"
CssFile(src_file) ==
    Front(src_file) \o <<Stem(Last(src_file)) \o <<".", "c", "s", "s">>>>

\* move_file_and_fix_imports: nested_dir / f"{file_name}.css"
TargetCss(src_file) ==
    Front(src_file) \o <<Stem(Last(src_file)), Stem(Last(src_file)) \o <<".", "c", "s", "s">>>>

\* move_file_and_fix_imports: lines 87-94, the tree being as git rm left it
MoveCss(removed, src_file, mvOk) ==
    IF CssFile(src_file) \in DOMAIN removed
    THEN IF mvOk
         THEN [fs |-> RemoveFile(WriteFile(removed, TargetCss(src_file),
                                           removed[CssFile(src_file)]),
                                 CssFile(src_file)),
               outcome |-> "moved", git |-> FALSE]
         ELSE [fs |-> removed, outcome |-> "raised", git |-> TRUE]
    ELSE [fs |-> removed, outcome |-> "moved", git |-> FALSE]

\* move_file_and_fix_imports: lines 80-94, the target being written
MoveGit(written, src_file, addOk, rmOk, mvOk) ==
    IF ~addOk THEN [fs |-> written, outcome |-> "error", git |-> TRUE]
    ELSE IF ~rmOk THEN [fs |-> written, outcome |-> "error", git |-> TRUE]
    ELSE MoveCss(RemoveFile(written, src_file), src_file, mvOk)

\* move_file_and_fix_imports(src_file), the git commands succeeding or not:
\* the tree it leaves and its outcome, "moved", "error" (False is returned)
\* or "raised" (CalledProcessError leaves the function)
move_file_and_fix_imports(tree, src_file, addOk, rmOk, mvOk) ==
    IF src_file \notin DOMAIN tree
    THEN [fs |-> tree, outcome |-> "error", git |-> FALSE]
    ELSE MoveGit(WriteFile(tree, TargetFile(src_file),
                           fix_imports_in_content(tree[src_file])),
                 src_file, addOk, rmOk, mvOk)

\* main(): the loop body after move_file_and_fix_imports(f) has ended with r
Moved(f, r) ==
    /\ fs' = r.fs
    /\ git_failed' = IF r.git THEN git_failed \cup {f} ELSE git_failed
    /\ IF r.outcome = "raised"
       THEN /\ pc' = "crashed"
            /\ UNCHANGED <<idx, success_count, error_count>>
       ELSE /\ pc' = pc
            /\ idx' = idx + 1
            /\ success_count' = success_count + (IF r.outcome = "moved" THEN 1 ELSE 0)
            /\ error_count' = error_count + (IF r.outcome = "error" THEN 1 ELSE 0)

\* main(): one iteration of the loop over files_to_move
MoveFile ==
    /\ pc = "run"
    /\ idx < Len(files_to_move)
    /\ \E addOk \in BOOLEAN, rmOk \in BOOLEAN, mvOk \in BOOLEAN :
         Moved(files_to_move[idx + 1],
               move_file_and_fix_imports(fs, files_to_move[idx + 1], addOk, rmOk, mvOk))
    /\ UNCHANGED <<files_to_move, fs0, script, todo, handed, fixed_count,
                   pathVars, fileVars>>

\* main(): the summary after the loop
MoverSummary ==
    /\ pc = "run"
    /\ idx = Len(files_to_move)
    /\ pc' = "done"
    /\ UNCHANGED <<files_to_move, idx, success_count, error_count, git_failed,
                   pathVars, fileVars, treeVars>>

NextMove == MoverFind \/ MoveFile \/ MoverSummary

SpecMove == InitMove /\ [][NextMove]_vars

\* C3: the failure of any git command run while moving a file is caught for
\* that file and counted as a per-file error, and the loop goes on: no such
\* failure ends the run before the summary.
C3_GitFailuresCountedPerFile ==
    /\ pc # "crashed"
    /\ error_count = Cardinality(git_failed)

\* C10: the mover destroys no content that existed before the run: a file that
\* is still where it was holds what it held.
C10_NoExistingFileOverwritten ==
    \A f \in DOMAIN fs0 \cap DOMAIN fs : fs[f] = fs0[f]

====
